---- MODULE Spec2Model ----
(***************************************************************************)
(* State-machine model of the Slack reminder application (src/app.py).     *)
(*                                                                         *)
(* The store is the relational database behind the SQLAlchemy models; one  *)
(* action models one Bolt listener or Flask route, run start to finish.    *)
(* Listeners run on Bolt's worker threads, so two requests can overlap:    *)
(* for the subscriber and event of RacePairs the subscribe path of         *)
(* handle_toggle can also run split at its transaction boundary (the       *)
(* existence check, then the insert and commit), interleaved with every    *)
(* other handler.                                                          *)
(*                                                                         *)
(* Calls that only render or publish a view (get_dashboard_view,           *)
(* client.views_publish, chat_postEphemeral after the commit) change no    *)
(* stored state and are not represented in the handler steps.              *)
(***************************************************************************)
EXTENDS Bags, FiniteSets, Integers, Naturals, Sequences, TLC

\* ------------------------------------------------------------------------
\* Bounds and input sets
\* ------------------------------------------------------------------------

\* largest day the clock reaches
MaxDay == 6

\* largest number of subscribe requests that are between check and commit
MaxInflight == 2

\* primary keys available to Event rows
EventIds == {1, 2}

\* the identity configured in the ROOT_ADMIN_ID environment variable
ROOT_ADMIN_ID == "root"

\* identities that send interactions
Users == {"root", "u1", "u2"}

\* identities that submit the operator forms and menus: the root operator
\* and an identity that is never put on the allow-list
FormActors == {"root", "u2"}

\* identities that pick "sub" or "unsub" in the overflow menu of an event
MenuSubscribers == {"u1"}

\* (subscriber, event) whose subscribe clicks can overlap
RacePairs == {<<"u1", 1>>}

\* identities (conversations) that subscribe or are subscribed by an operator
Subscribers == {"u1", "u2"}

\* identities selectable in the add-admin form
AdminInputs == {"u1"}

\* category names typed into the add-category form
NameInputs == {"AP", "Debate"}

\* categories selectable in the category select of the operator forms
TypeInputs == {"SAT", "AP"}

\* the day the clock shows when the process starts
StartDay == 3

\* values entered in the event forms of the reminder scenarios, besides
\* EventInputs: deadline and event date both within three days of a day the
\* clock reaches, and both far away
CycleInputs ==
  { [event_type |-> "AP",  event_date |-> 6,  registration_deadline |-> 5],
    [event_type |-> "SAT", event_date |-> 26, registration_deadline |-> 16] }

\* subsets of the subscribers to whom a message cannot be delivered
FailingSets == SUBSET {"u1", "u2"}

\* values entered in the event forms: two categories with the deadline
\* still open on StartDay, and one event whose deadline has passed
EventInputs ==
  { [event_type |-> "SAT", event_date |-> 16, registration_deadline |-> 6],
    [event_type |-> "AP",  event_date |-> 16, registration_deadline |-> 6],
    [event_type |-> "SAT", event_date |-> 6,  registration_deadline |-> 2] }

\* value of AppConfig.query.get("consultant_channel") when there is no row
NoConfig == "none"

VARIABLES
  events,    \* Event table: set of rows (id is the primary key)
  subs,      \* Subscription table: bag of rows (the surrogate id is elided)
  admins,    \* AppAdmin table: set of rows
  types,     \* EventType table: set of names (name is the primary key)
  config,    \* AppConfig value for "consultant_channel", or NoConfig
  today,     \* datetime.now().date(), in days
  inflight,  \* subscribe requests that passed the existence check
  issued,    \* event ids that were rendered into buttons, menus and forms
  last       \* the last request handled and its outcome

vars ==
  <<events, subs, admins, types, config, today, inflight, issued, last>>

store == <<events, subs, admins, types, config>>

\* ------------------------------------------------------------------------
\* Database models
\* ------------------------------------------------------------------------

\* columns of class Subscription
SubscriptionColumns == {"id", "channel_id", "event_id", "status"}

\* seed categories written at start-up when the table is empty
defaults == {"SAT", "ACT", "AP", "Extracurricular"}

Subscription(ch, ev, st) == [channel_id |-> ch, event_id |-> ev, status |-> st]

Event(id, vals) ==
  [id |-> id, event_type |-> vals.event_type, event_date |-> vals.event_date,
   registration_deadline |-> vals.registration_deadline]

AppAdmin(uid) == [user_slack_id |-> uid]

\* Subscription.query.filter_by(channel_id=ch, event_id=ev).all()
SubsOf(S, ch, ev) ==
  {r \in BagToSet(S) : r.channel_id = ch /\ r.event_id = ev}

\* Subscription.query.filter_by(event_id=ev).all()
SubsOfEvent(S, ev) == {r \in BagToSet(S) : r.event_id = ev}

\* number of rows a set of distinct row values stands for
RECURSIVE RowCount(_, _)
RowCount(S, rows) ==
  IF rows = {} THEN 0
  ELSE LET r == CHOOSE x \in rows : TRUE
       IN CopiesIn(r, S) + RowCount(S, rows \ {r})

\* rows of the table that keep(r) retains (Query.delete() of the others)
Retain(S, keep(_)) ==
  LET d == {r \in BagToSet(S) : keep(r)} IN [r \in d |-> S[r]]

\* Event.query.get(id): the row, or the empty set for None
EventGet(E, id) == {e \in E : e.id = id}

\* UniqueConstraint('channel_id', 'event_id', name='_user_event_uc'):
\* TRUE when the table accepts the insert of row
user_event_uc_off(S, row) == TRUE

user_event_uc(S, row) == SubsOf(S, row.channel_id, row.event_id) = {}

\* ------------------------------------------------------------------------
\* Helper functions
\* ------------------------------------------------------------------------

\* AppAdmin.query.filter_by(user_slack_id=user_id).first(): a set with the
\* first matching row, empty for None
AppAdminFirst(A, user_id) ==
  LET rows == {a \in A : a.user_slack_id = user_id}
  IN IF rows = {} THEN {} ELSE {CHOOSE a \in rows : TRUE}

is_user_admin_no_root(A, user_id) == AppAdminFirst(A, user_id) # {}

is_user_admin(A, user_id) ==
  IF user_id = ROOT_ADMIN_ID THEN TRUE
  ELSE AppAdminFirst(A, user_id) # {}

\* ------------------------------------------------------------------------
\* The record of the last request
\* ------------------------------------------------------------------------

\* op is the handler, actor the identity in the payload, ev and target the
\* event and the conversation it names, had whether the row the handler
\* looks up existed before, ok whether the handler returned without raising,
\* io what the handler received from and sent to the outside
NoIO == [kind |-> "none"]

Idle ==
  [op |-> "init", actor |-> "-", ev |-> 0, target |-> "-", mode |-> "-",
   had |-> FALSE, ok |-> TRUE, io |-> NoIO]

Req(op, actor, ev, target, mode, had, ok) ==
  [op |-> op, actor |-> actor, ev |-> ev, target |-> target, mode |-> mode,
   had |-> had, ok |-> ok, io |-> NoIO]

Init ==
  /\ events = {}
  /\ subs = EmptyBag
  /\ admins = {}
  /\ types = defaults
  /\ config = "C_CONSULT"
  /\ today = StartDay
  /\ inflight = EmptyBag
  /\ issued = {}
  /\ last = Idle

\* ------------------------------------------------------------------------
\* The clock
\* ------------------------------------------------------------------------

Tick ==
  /\ today < MaxDay
  /\ today' = today + 1
  /\ last' = Idle
  /\ UNCHANGED <<store, inflight, issued>>

\* ------------------------------------------------------------------------
\* Interactive actions
\* ------------------------------------------------------------------------

Ids(E) == {e.id : e \in E}

\* db.session.add(row); db.session.commit(): the row is stored unless the
\* unique constraint rejects it (IntegrityError, the transaction is lost)
Insert(S, row) ==
  IF user_event_uc(S, row) THEN S (+) SetToBag({row}) ELSE S

\* handle_toggle, action "sub": the existence check, the insert and the
\* commit.  ok is FALSE when the commit raises.
toggle_sub_nocheck(u, e) ==
  /\ e \in issued
  /\ LET row == Subscription(u, e, "Pending")
     IN /\ subs' = Insert(subs, row)
        /\ last' = Req("toggle_sub", u, e, u, "-", SubsOf(subs, u, e) # {},
                       user_event_uc(subs, row))
  /\ UNCHANGED <<events, admins, types, config, today, inflight, issued>>

toggle_sub(u, e) ==
  /\ e \in issued
  /\ LET row == Subscription(u, e, "Pending")
         had == SubsOf(subs, u, e) # {}
     IN /\ subs' = IF ~had THEN Insert(subs, row) ELSE subs
        /\ last' = Req("toggle_sub", u, e, u, "-", had,
                       had \/ user_event_uc(subs, row))
  /\ UNCHANGED <<events, admins, types, config, today, inflight, issued>>

\* handle_toggle, action "sub", up to the existence check.  When a row is
\* found the handler commits nothing and is finished.
toggle_check(u, e) ==
  /\ <<u, e>> \in RacePairs
  /\ e \in issued
  /\ IF SubsOf(subs, u, e) # {}
     THEN inflight' = inflight
     ELSE /\ BagCardinality(inflight) < MaxInflight
          /\ inflight' = inflight (+) SetToBag({<<u, e>>})
  /\ last' = Req("toggle_check", u, e, u, "-", SubsOf(subs, u, e) # {}, TRUE)
  /\ UNCHANGED <<store, today, issued>>

\* handle_toggle, action "sub", from db.session.add to db.session.commit
toggle_commit(u, e) ==
  /\ BagIn(<<u, e>>, inflight)
  /\ LET row == Subscription(u, e, "Pending")
     IN /\ subs' = Insert(subs, row)
        /\ last' = Req("toggle_commit", u, e, u, "-",
                       SubsOf(subs, u, e) # {}, user_event_uc(subs, row))
  /\ inflight' = inflight (-) SetToBag({<<u, e>>})
  /\ UNCHANGED <<events, admins, types, config, today, issued>>

\* handle_toggle, any other action value: delete the rows and commit
toggle_unsub(u, e) ==
  /\ e \in issued
  /\ subs' = Retain(subs, LAMBDA r : ~(r.channel_id = u /\ r.event_id = e))
  /\ last' = Req("toggle_unsub", u, e, u, "-", SubsOf(subs, u, e) # {}, TRUE)
  /\ UNCHANGED <<events, admins, types, config, today, inflight, issued>>

\* handle_event_overflow, "edit": open_edit_event_modal reads and opens a view
overflow_edit(u, e) ==
  /\ e \in issued
  /\ last' = Req("overflow_edit", u, e, "-", "-", EventGet(events, e) # {}, TRUE)
  /\ UNCHANGED <<store, today, inflight, issued>>

\* handle_event_overflow, "delete": the rows of the event, the event, then
\* the commit.  mode tells whether the event had subscription rows.
overflow_delete_event_only(u, e) ==
  /\ e \in issued
  /\ events' = {x \in events : x.id # e}
  /\ last' = Req("overflow_delete", u, e, "-",
                 IF SubsOfEvent(subs, e) # {} THEN "subs" ELSE "-",
                 EventGet(events, e) # {}, TRUE)
  /\ UNCHANGED <<subs, admins, types, config, today, inflight, issued>>

overflow_delete(u, e) ==
  /\ e \in issued
  /\ subs' = Retain(subs, LAMBDA r : r.event_id # e)
  /\ events' = {x \in events : x.id # e}
  /\ last' = Req("overflow_delete", u, e, "-",
                 IF SubsOfEvent(subs, e) # {} THEN "subs" ELSE "-",
                 EventGet(events, e) # {}, TRUE)
  /\ UNCHANGED <<admins, types, config, today, inflight, issued>>

\* handle_event_overflow, "sub"
overflow_sub(u, e) ==
  /\ e \in issued
  /\ subs' = IF SubsOf(subs, u, e) = {}
             THEN Insert(subs, Subscription(u, e, "Pending"))
             ELSE subs
  /\ last' = Req("overflow_sub", u, e, u, "-", SubsOf(subs, u, e) # {}, TRUE)
  /\ UNCHANGED <<events, admins, types, config, today, inflight, issued>>

\* handle_event_overflow, "unsub": filter_by names a column; a name the
\* model class does not have raises before anything is deleted
overflow_unsub(u, e) ==
  /\ e \in issued
  /\ subs' = IF "user_slack_id" \in SubscriptionColumns
             THEN Retain(subs, LAMBDA r : ~(r.channel_id = u /\ r.event_id = e))
             ELSE subs
  /\ last' = Req("overflow_unsub", u, e, u, "-", SubsOf(subs, u, e) # {},
                 "user_slack_id" \in SubscriptionColumns)
  /\ UNCHANGED <<events, admins, types, config, today, inflight, issued>>

handle_event_overflow(u, e) ==
  \/ u \in FormActors /\ overflow_edit(u, e)
  \/ u \in FormActors /\ overflow_delete(u, e)
  \/ u \in MenuSubscribers /\ overflow_sub(u, e)
  \/ u \in MenuSubscribers /\ overflow_unsub(u, e)

\* handle_registration_confirm.  fail names the client call that raises:
\* "update" (the payload carries the message and chat_update raises), "post"
\* (chat_postMessage to the consultant channel raises) or "none".  The
\* status is changed in the session first and committed last, so a call
\* that raises in between loses the change; so does reading event.title of
\* an event that is gone.
handle_registration_confirm_flips(u, e, fail) ==
  /\ e \in issued
  /\ LET found == SubsOf(subs, u, e)
         sub == CHOOSE r \in found : TRUE
         raised == \/ fail = "update"
                   \/ config # NoConfig /\ EventGet(events, e) = {}
                   \/ config # NoConfig /\ fail = "post"
     IN /\ subs' = IF found # {} /\ ~raised
                   THEN (subs (-) SetToBag({sub}))
                          (+) SetToBag({[sub EXCEPT !.status =
                                 IF sub.status = "Pending" THEN "Registered"
                                 ELSE "Pending"]})
                   ELSE subs
        /\ last' = Req("confirm", u, e, u, fail, found # {}, ~(found # {} /\ raised))
  /\ UNCHANGED <<events, admins, types, config, today, inflight, issued>>

handle_registration_confirm(u, e, fail) ==
  /\ e \in issued
  /\ LET found == SubsOf(subs, u, e)
         sub == CHOOSE r \in found : TRUE
         pending == found # {} /\ sub.status = "Pending"
         raised == \/ fail = "update"
                   \/ config # NoConfig /\ EventGet(events, e) = {}
                   \/ config # NoConfig /\ fail = "post"
     IN /\ subs' = IF pending /\ ~raised
                   THEN (subs (-) SetToBag({sub}))
                          (+) SetToBag({[sub EXCEPT !.status = "Registered"]})
                   ELSE subs
        /\ last' = Req("confirm", u, e, u, fail, pending, ~(pending /\ raised))
  /\ UNCHANGED <<events, admins, types, config, today, inflight, issued>>

\* ------------------------------------------------------------------------
\* View submissions
\* ------------------------------------------------------------------------

\* handle_event_sub: the new row takes a primary key that no row holds
handle_event_sub(u, vals) ==
  /\ vals.event_type \in types
  /\ \E id \in EventIds \ Ids(events) :
       /\ events' = events \cup {Event(id, vals)}
       /\ issued' = issued \cup {id}
       /\ last' = Req("submit_new_event", u, id, "-", "-", FALSE, TRUE)
  /\ UNCHANGED <<subs, admins, types, config, today, inflight>>

\* handle_edit_submission
handle_edit_submission(u, e, vals) ==
  /\ e \in issued
  /\ vals.event_type \in types
  /\ events' = IF EventGet(events, e) # {}
               THEN {x \in events : x.id # e} \cup {Event(e, vals)}
               ELSE events
  /\ last' = Req("submit_edit_event", u, e, "-", "-", EventGet(events, e) # {}, TRUE)
  /\ UNCHANGED <<subs, admins, types, config, today, inflight, issued>>

\* handle_type_sub
handle_type_sub(u, name) ==
  /\ types' = IF name \notin types THEN types \cup {name} ELSE types
  /\ last' = Req("submit_new_type", u, 0, name, "-", name \in types, TRUE)
  /\ UNCHANGED <<events, subs, admins, config, today, inflight, issued>>

\* handle_admin_sub
handle_admin_sub(u, uid) ==
  /\ admins' = IF AppAdminFirst(admins, uid) = {}
               THEN admins \cup {AppAdmin(uid)}
               ELSE admins
  /\ last' = Req("submit_new_admin", u, 0, uid, "-",
                 AppAdminFirst(admins, uid) # {}, TRUE)
  /\ UNCHANGED <<events, subs, types, config, today, inflight, issued>>

\* Event.query.filter(Event.registration_deadline >= today), optionally
\* filter_by(event_type=cat_name)
OpenEvents(E, day) == {e \in E : e.registration_deadline >= day}

OpenEventsOf(E, day, cat_name) ==
  {e \in OpenEvents(E, day) : e.event_type = cat_name}

\* the loop of the category and all modes: a Pending row is added for every
\* listed event the target has no row for
SubscribeAll(S, target_user, evs) ==
  LET missing == {e \in evs : SubsOf(S, target_user, e.id) = {}}
  IN S (+) SetToBag({Subscription(target_user, e.id, "Pending") : e \in missing})

\* handle_admin_sub_submission.  sel is the selected event id (0 when no
\* option or the "none" option is selected) or the selected category ("-"
\* when none is selected).
admin_sub_item(u, target_user, sel) ==
  /\ sel \in issued \cup {0}
  /\ LET had == SubsOf(subs, target_user, sel) # {}
         event == EventGet(events, sel)
         \* msg reads event.title only on the branch that adds the row
         raised == sel # 0 /\ ~had /\ event = {}
     IN /\ subs' = IF sel # 0 /\ ~had /\ ~raised
                   THEN Insert(subs, Subscription(target_user, sel, "Pending"))
                   ELSE subs
        /\ last' = Req("submit_admin_sub", u, sel, target_user, "item", had, ~raised)
  /\ UNCHANGED <<events, admins, types, config, today, inflight, issued>>

admin_sub_cat(u, target_user, cat) ==
  /\ subs' = IF cat # "-"
             THEN SubscribeAll(subs, target_user, OpenEventsOf(events, today, cat))
             ELSE subs
  /\ last' = Req("submit_admin_sub", u, 0, target_user, "cat", FALSE, TRUE)
  /\ UNCHANGED <<events, admins, types, config, today, inflight, issued>>

admin_sub_all(u, target_user) ==
  /\ subs' = SubscribeAll(subs, target_user, OpenEvents(events, today))
  /\ last' = Req("submit_admin_sub", u, 0, target_user, "all", FALSE, TRUE)
  /\ UNCHANGED <<events, admins, types, config, today, inflight, issued>>

handle_admin_sub_submission(u, target_user) ==
  \/ \E sel \in EventIds \cup {0} : admin_sub_item(u, target_user, sel)
  \/ \E cat \in TypeInputs \cup {"-"} : admin_sub_cat(u, target_user, cat)
  \/ admin_sub_all(u, target_user)

\* handle_admin_register_submission.  The single-event mode commits the
\* status and then reads event.title for the message; the category and all
\* modes run the same loop as handle_admin_sub_submission.
admin_register_item(u, target_user, sel) ==
  /\ sel \in issued \cup {0}
  /\ LET found == SubsOf(subs, target_user, sel)
         sub == CHOOSE r \in found : TRUE
     IN /\ subs' = IF sel # 0 /\ found # {}
                   THEN (subs (-) SetToBag({sub}))
                          (+) SetToBag({[sub EXCEPT !.status = "Registered"]})
                   ELSE subs
        /\ last' = Req("submit_admin_register", u, sel, target_user, "item",
                       found # {}, sel = 0 \/ EventGet(events, sel) # {})
  /\ UNCHANGED <<events, admins, types, config, today, inflight, issued>>

admin_register_cat(u, target_user, cat) ==
  /\ subs' = IF cat # "-"
             THEN SubscribeAll(subs, target_user, OpenEventsOf(events, today, cat))
             ELSE subs
  /\ last' = Req("submit_admin_register", u, 0, target_user, "cat", FALSE, TRUE)
  /\ UNCHANGED <<events, admins, types, config, today, inflight, issued>>

admin_register_all(u, target_user) ==
  /\ subs' = SubscribeAll(subs, target_user, OpenEvents(events, today))
  /\ last' = Req("submit_admin_register", u, 0, target_user, "all", FALSE, TRUE)
  /\ UNCHANGED <<events, admins, types, config, today, inflight, issued>>

handle_admin_register_submission(u, target_user) ==
  \/ \E sel \in EventIds \cup {0} : admin_register_item(u, target_user, sel)
  \/ \E cat \in TypeInputs \cup {"-"} : admin_register_cat(u, target_user, cat)
  \/ admin_register_all(u, target_user)

\* ------------------------------------------------------------------------
\* Slash commands
\* ------------------------------------------------------------------------

\* handle_list_subs: the permission check, then the subscriptions of the
\* target joined with their events.  The response is "denied", "empty", or
\* the listed (event, status text) lines of the events still open.
ListLines(S, E, target_id, day) ==
  { <<e.id, IF r.status = "Pending" THEN "unregistered" ELSE "registered">> :
      <<r, e>> \in { p \in BagToSet(S) \X E :
                       /\ p[1].event_id = p[2].id
                       /\ p[1].channel_id = target_id
                       /\ p[2].registration_deadline >= day } }

handle_list_subs(u, target_id) ==
  /\ LET allowed == is_user_admin(admins, u)
         joined == {r \in BagToSet(subs) :
                      r.channel_id = target_id /\ EventGet(events, r.event_id) # {}}
         io == IF ~allowed THEN [kind |-> "denied"]
               ELSE IF joined = {} THEN [kind |-> "empty"]
               ELSE [kind |-> "list",
                     lines |-> ListLines(subs, events, target_id, today)]
     IN last' = [Req("list_subs", u, 0, target_id, "-", joined # {}, TRUE)
                   EXCEPT !.io = io]
  /\ UNCHANGED <<store, today, inflight, issued>>

\* the text of a command that names an event: empty, or the digits of an id
NoQuery == 0

\* find_event_by_query: the set with the event found, empty with an error.
\* A text of digits is looked up as a primary key first; the search in the
\* titles that follows finds nothing, the titles entered in the forms
\* holding no digits.
find_event_by_query(query_text) ==
  IF query_text = NoQuery THEN {} ELSE EventGet(events, query_text)

\* Subscription.query.filter_by(event_id=event.id, status="Pending").all()
pending_subs_any_status(S, event_id) == SubsOfEvent(S, event_id)

pending_subs(S, event_id) ==
  {r \in SubsOfEvent(S, event_id) : r.status = "Pending"}

\* Subscription.query.filter_by(event_id=event.id, status="Registered").count()
registered_count(S, event_id) ==
  RowCount(S, {r \in SubsOfEvent(S, event_id) : r.status = "Registered"})

\* handle_check_pending: the response is "denied", "error" (no event
\* found), or the conversations listed (one line per Pending row) with the
\* registered count; with no Pending row the response has the count only.
handle_check_pending(u, query_text) ==
  /\ LET found == find_event_by_query(query_text)
         event == CHOOSE e \in found : TRUE
         pending == pending_subs(subs, event.id)
         io == IF ~is_user_admin(admins, u) THEN [kind |-> "denied"]
               ELSE IF found = {} THEN [kind |-> "error"]
               ELSE [kind |-> IF pending = {} THEN "all_registered" ELSE "pending",
                     listed |-> [c \in {r.channel_id : r \in pending} |->
                                   RowCount(subs, {r \in pending : r.channel_id = c})],
                     registered_count |-> registered_count(subs, event.id)]
     IN last' = [Req("check_pending", u, query_text, "-", "-", found # {}, TRUE)
                   EXCEPT !.io = io]
  /\ UNCHANGED <<store, today, inflight, issued>>

\* handle_nudge_pending with the messages to the conversations of failing
\* not delivered (chat_postMessage raises, the handler logs sub.channel_id
\* and goes on).  calls are the chat_postMessage calls made, by channel, sent
\* those that returned, count the number in the response.
NudgeIO(kind, failing, calls, sent, count) ==
  [kind |-> kind, failing |-> failing, calls |-> calls, sent |-> sent,
   count |-> count]

handle_nudge_pending(u, query_text, failing) ==
  /\ LET found == find_event_by_query(query_text)
         event == CHOOSE e \in found : TRUE
         pending == pending_subs(subs, event.id)
         delivered == {r \in pending : r.channel_id \notin failing}
         ByChannel(rs) == [c \in {r.channel_id : r \in rs} |->
                             RowCount(subs, {r \in rs : r.channel_id = c})]
         io == IF ~is_user_admin(admins, u)
                 THEN NudgeIO("denied", {}, EmptyBag, EmptyBag, 0)
               ELSE IF found = {}
                 THEN NudgeIO("error", {}, EmptyBag, EmptyBag, 0)
               ELSE IF pending = {}
                 THEN NudgeIO("nobody", {}, EmptyBag, EmptyBag, 0)
               ELSE NudgeIO("nudged", failing, ByChannel(pending),
                            ByChannel(delivered), RowCount(subs, delivered))
     IN /\ failing # {} => io.kind = "nudged"
        /\ last' = [Req("nudge_pending", u, query_text, "-", "-", found # {}, TRUE)
                      EXCEPT !.io = io]
  /\ UNCHANGED <<store, today, inflight, issued>>

\* ------------------------------------------------------------------------
\* Options requests
\* ------------------------------------------------------------------------

\* What an options handler records: the order in which it queried the
\* store and called ack, and the event ids of the options it answered with.
OptionsIO(steps, options) ==
  [kind |-> "options", steps |-> steps, options |-> options]

\* handle_event_search (event_search) and handle_admin_event_search
\* (event_id): the events with an open deadline whose title matches the text
\* typed, here the empty text, which every title matches; ack(options=...)
\* is the last statement.
handle_event_search ==
  /\ last' = [Req("event_search", "-", 0, "-", "-", FALSE, TRUE)
                EXCEPT !.io = OptionsIO(<<"query", "ack">>,
                                        Ids(OpenEvents(events, today)))]
  /\ UNCHANGED <<store, today, inflight, issued>>

handle_admin_event_search ==
  /\ last' = [Req("event_id", "-", 0, "-", "-", FALSE, TRUE)
                EXCEPT !.io = OptionsIO(<<"query", "ack">>,
                                        Ids(OpenEvents(events, today)))]
  /\ UNCHANGED <<store, today, inflight, issued>>

\* the private_metadata of a view that carries none
NoMetadata == ""

\* handle_admin_event_subscribed_search (event_subscribed): without
\* private_metadata it answers no options at once; otherwise the events of
\* the Pending subscriptions of the conversation, joined with Event
handle_admin_event_subscribed_search(channel_id) ==
  /\ last' = [Req("event_subscribed", "-", 0, channel_id, "-", FALSE, TRUE)
                EXCEPT !.io =
                  IF channel_id = NoMetadata THEN OptionsIO(<<"ack">>, {})
                  ELSE OptionsIO(<<"query", "ack">>,
                         {r.event_id : r \in {x \in BagToSet(subs) :
                              /\ x.channel_id = channel_id
                              /\ x.status = "Pending"
                              /\ EventGet(events, x.event_id) # {}}})]
  /\ UNCHANGED <<store, today, inflight, issued>>

\* ------------------------------------------------------------------------
\* The reminder trigger (POST /api/run-reminders)
\* ------------------------------------------------------------------------

\* Authorization header values: absent, or the parts that
\* auth_header.split(maxsplit=1) yields
NoHeader == [truthy |-> FALSE, parts |-> <<>>]

Header(parts) == [truthy |-> TRUE, parts |-> parts]

\* a token with a character outside ASCII
NonAsciiToken == "s3cret-with-e-acute"

Headers ==
  { NoHeader,
    Header(<<"Bearer">>),
    Header(<<"Basic", "s3cret">>),
    Header(<<"Bearer", "s3cret">>),
    Header(<<"BEARER", "s3cret">>),
    Header(<<"Bearer", "wrong">>),
    Header(<<"Bearer", NonAsciiToken>>) }

\* os.environ.get("CRON_SECRET"): unset (falsy) or the configured secret
NoSecret == ""

Secrets == {NoSecret, "s3cret"}

\* str.lower() on the scheme names in Headers
Lower(str) ==
  CASE str = "Bearer" -> "bearer"
    [] str = "BEARER" -> "bearer"
    [] str = "Basic" -> "basic"
    [] OTHER -> str

IsAscii(str) == str # NonAsciiToken

\* secrets.compare_digest(a, b) on str arguments: raises TypeError when
\* either has a non-ASCII character, otherwise tells whether they are equal
compare_digest(a, b) ==
  IF ~IsAscii(a) \/ ~IsAscii(b) THEN "TypeError"
  ELSE IF a = b THEN "True" ELSE "False"

\* HTTP status codes of the route
HttpOk == 200

HttpUnauthorized == 401

HttpServerError == 500

\* lines 1611-1622: the status the boundary check answers with, or 0 when
\* the request passes.  A TypeError is not a ValueError: it leaves the view
\* function and Flask answers 500.
authorize_any_scheme(auth_header, cron_secret) ==
  IF ~auth_header.truthy \/ cron_secret = NoSecret THEN HttpUnauthorized
  ELSE IF Len(auth_header.parts) # 2 THEN HttpUnauthorized
  ELSE IF compare_digest(auth_header.parts[2], cron_secret) = "TypeError"
    THEN HttpServerError
  ELSE IF compare_digest(auth_header.parts[2], cron_secret) = "False"
    THEN HttpUnauthorized
  ELSE 0

authorize(auth_header, cron_secret) ==
  IF ~auth_header.truthy \/ cron_secret = NoSecret THEN HttpUnauthorized
  ELSE IF Len(auth_header.parts) # 2 THEN HttpUnauthorized
  ELSE IF Lower(auth_header.parts[1]) # "bearer" THEN HttpUnauthorized
  ELSE IF compare_digest(auth_header.parts[2], cron_secret) = "TypeError"
    THEN HttpServerError
  ELSE IF compare_digest(auth_header.parts[2], cron_secret) = "False"
    THEN HttpUnauthorized
  ELSE 0

\* the lead times of the loop, for days_left in [0, 1, 2, 3]
LeadTimes == <<0, 1, 2, 3>>

\* a set of events as a sequence, in primary-key order
RECURSIVE ById(_)
ById(E) ==
  IF E = {} THEN <<>>
  ELSE LET e == CHOOSE x \in E : \A y \in E : x.id <= y.id
       IN <<e>> \o ById(E \ {e})

\* the events notify is called for, in the order of the loop: for each lead
\* time the events whose deadline is on the target date, then the events
\* whose event date is
RECURSIVE Triggered_from_target(_, _, _)
Triggered_from_target(E, day, k) ==
  IF k > Len(LeadTimes) THEN <<>>
  ELSE LET target_date == day + LeadTimes[k]
           deadline_events == {e \in E : e.registration_deadline >= target_date}
           test_day_events == {e \in E : e.event_date = target_date}
       IN ById(deadline_events) \o ById(test_day_events)
            \o Triggered_from_target(E, day, k + 1)

RECURSIVE Triggered(_, _, _)
Triggered(E, day, k) ==
  IF k > Len(LeadTimes) THEN <<>>
  ELSE LET target_date == day + LeadTimes[k]
           deadline_events == {e \in E : e.registration_deadline = target_date}
           test_day_events == {e \in E : e.event_date = target_date}
       IN ById(deadline_events) \o ById(test_day_events)
            \o Triggered(E, day, k + 1)

\* notify(evt, msg) with the messages to the conversations of failing not
\* delivered.  The message is posted to sub.user_slack_id: when the model
\* class has no such attribute the read raises inside the try, the handler
\* of that exception reads it again for the log line, and the second
\* AttributeError leaves notify.  calls is the bag of chat_postMessage calls
\* made, sent the bag of those that returned.
notify(S, evt, failing) ==
  LET rows == SubsOfEvent(S, evt.id)
      delivered == {r \in rows : r.channel_id \notin failing}
      Msgs(rs) == LET chans == {r.channel_id : r \in rs}
                  IN [m \in {<<c, evt.id>> : c \in chans} |->
                        RowCount(S, {r \in rs : r.channel_id = m[1]})]
  IN IF rows = {}
       THEN [raised |-> FALSE, cnt |-> 0, calls |-> EmptyBag, sent |-> EmptyBag]
     ELSE IF "user_slack_id" \notin SubscriptionColumns
       THEN [raised |-> TRUE, cnt |-> 0, calls |-> EmptyBag, sent |-> EmptyBag]
     ELSE [raised |-> FALSE, cnt |-> RowCount(S, delivered),
           calls |-> Msgs(rows), sent |-> Msgs(delivered)]

\* the loop over the triggered events: total_sent, the messages and the
\* events notify was called for so far, until a notify raises
RECURSIVE RunLoop(_, _, _, _)
RunLoop(S, evts, failing, acc) ==
  IF evts = <<>> \/ acc.raised THEN acc
  ELSE LET n == notify(S, Head(evts), failing)
       IN RunLoop(S, Tail(evts), failing,
                  [raised |-> n.raised,
                   total_sent |-> acc.total_sent + n.cnt,
                   notified |-> acc.notified \cup {Head(evts).id},
                   calls |-> acc.calls (+) n.calls,
                   sent |-> acc.sent (+) n.sent])

\* trigger_reminders.  briefing_fails: the post to the consultant channel
\* raises (caught and logged inside the route).
trigger_reminders(auth_header, cron_secret, failing, briefing_fails) ==
  /\ LET status == authorize(auth_header, cron_secret)
         run == RunLoop(subs, Triggered(events, today, 1), failing,
                        [raised |-> FALSE, total_sent |-> 0, notified |-> {},
                         calls |-> EmptyBag, sent |-> EmptyBag])
         io == IF status # 0
               THEN [kind |-> "http", header |-> auth_header,
                     secret |-> cron_secret, failing |-> {}, code |-> status,
                     queried |-> FALSE, reminders_sent |-> 0,
                     notified |-> {}, calls |-> EmptyBag, sent |-> EmptyBag,
                     briefing |-> "no"]
               ELSE [kind |-> "http", header |-> auth_header,
                     secret |-> cron_secret, failing |-> failing,
                     code |-> IF run.raised THEN HttpServerError ELSE HttpOk,
                     queried |-> TRUE,
                     reminders_sent |-> IF run.raised THEN 0 ELSE run.total_sent,
                     notified |-> run.notified,
                     calls |-> run.calls, sent |-> run.sent,
                     briefing |-> IF run.raised \/ config = NoConfig THEN "no"
                                  ELSE IF briefing_fails THEN "failed"
                                  ELSE "sent"]
     IN /\ status # 0 => failing = {} /\ ~briefing_fails
        /\ last' = [Req("trigger", "cron", 0, "-", "-", FALSE,
                        status = 0 /\ ~run.raised) EXCEPT !.io = io]
  /\ UNCHANGED <<store, today, inflight, issued>>

\* ------------------------------------------------------------------------
\* Rendering (get_sorted_events, build_event_block, the two views)
\* ------------------------------------------------------------------------

\* category=None
NoCategory == ""

\* the channel_id that both views pass to get_sorted_events
NoChannel == ""

\* orders in which the database returns rows that the ORDER BY leaves tied
TieOrders == {"asc", "desc"}

\* the rows of the outer join of get_sorted_events: every event whose
\* deadline has not passed (of the category, when one is given) with each
\* Subscription row of channel_id for it, or with no row (sub = {})
JoinRows(channel_id, category) ==
  LET evs == {e \in events :
                /\ e.registration_deadline >= today
                /\ category # NoCategory => e.event_type = category}
  IN UNION { IF SubsOf(subs, channel_id, e.id) = {}
               THEN {[event |-> e, sub |-> {}]}
             ELSE {[event |-> e, sub |-> {r}] : r \in SubsOf(subs, channel_id, e.id)}
             : e \in evs }

\* ORDER BY (Subscription.id IS NULL), Event.event_date; rows the two keys
\* leave tied come in the order tie
RowBefore_date_only(a, b, tie) ==
  \/ a.event.event_date < b.event.event_date
  \/ /\ a.event.event_date = b.event.event_date
     /\ IF tie = "asc" THEN a.event.id <= b.event.id
        ELSE a.event.id >= b.event.id

RowBefore(a, b, tie) ==
  LET na == IF a.sub = {} THEN 1 ELSE 0
      nb == IF b.sub = {} THEN 1 ELSE 0
  IN \/ na < nb
     \/ na = nb /\ a.event.event_date < b.event.event_date
     \/ /\ na = nb /\ a.event.event_date = b.event.event_date
        /\ IF tie = "asc" THEN a.event.id <= b.event.id
           ELSE a.event.id >= b.event.id

RECURSIVE OrderBy(_, _)
OrderBy(rows, tie) ==
  IF rows = {} THEN <<>>
  ELSE LET r == CHOOSE x \in rows : TRUE
           rest == OrderBy(rows \ {r}, tie)
           k == Cardinality({i \in 1..Len(rest) : RowBefore(rest[i], r, tie)})
       IN SubSeq(rest, 1, k) \o <<r>> \o SubSeq(rest, k + 1, Len(rest))

\* get_sorted_events(channel_id, category): the events of the rows in order,
\* and the map from event id to the Subscription of the rows that have one
get_sorted_events(channel_id, category, tie) ==
  LET results == OrderBy(JoinRows(channel_id, category), tie)
      with_sub == {i \in 1..Len(results) : results[i].sub # {}}
  IN [events |-> [i \in 1..Len(results) |-> results[i].event],
      subs |-> [id \in {results[i].event.id : i \in with_sub} |->
                  CHOOSE r \in BagToSet(subs) :
                     \E i \in with_sub :
                        results[i].event.id = id /\ results[i].sub = {r}]]

\* one Block Kit block: its type, the event it is about (0 for none), the
\* type of its accessory, the values of its options or the action ids of
\* its buttons, and what its text says
Block(type, ev, accessory, controls, text) ==
  [type |-> type, ev |-> ev, accessory |-> accessory, controls |-> controls,
   text |-> text]

\* build_event_block(event, subscription, is_admin); subscription is the
\* set with the row, empty for None
build_event_block(event, subscription, is_admin) ==
  LET is_subscribed == subscription # {}
      status == IF is_subscribed THEN (CHOOSE r \in subscription : TRUE).status
                ELSE "None"
      main_block == IF is_admin
                    THEN Block("section", event.id, "overflow",
                               {"edit", "delete"}, "event")
                    ELSE Block("section", event.id, "none", {}, "event")
  IN <<main_block>>
       \o (IF is_subscribed /\ status = "Pending"
             THEN <<Block("actions", event.id, "none",
                          {"confirm_registration"}, "")>>
           ELSE IF is_subscribed /\ status = "Registered"
             THEN <<Block("context", event.id, "none", {}, "registered")>>
           ELSE <<>>)

\* subs[event.id] if event.id in subs.keys() else None
SubOrNone(submap, id) == IF id \in DOMAIN submap THEN {submap[id]} ELSE {}

\* the blocks of a list of events, each followed by a divider when sep
RECURSIVE EventBlocks(_, _, _, _)
EventBlocks(evs, submap, is_admin, sep) ==
  IF evs = <<>> THEN <<>>
  ELSE build_event_block(Head(evs), SubOrNone(submap, Head(evs).id), is_admin)
         \o (IF sep THEN <<Block("divider", 0, "none", {}, "")>> ELSE <<>>)
         \o EventBlocks(Tail(evs), submap, is_admin, sep)

\* a set as a list: the order of EventType.query.all()
RECURSIVE SetToSeq(_)
SetToSeq(T) ==
  IF T = {} THEN <<>>
  ELSE LET t == CHOOSE x \in T : TRUE IN <<t>> \o SetToSeq(T \ {t})

\* the header of the dashboard and, for an operator, the admin controls
dashboard_head(is_admin) ==
  << Block("header", 0, "none", {}, "title"),
     Block("section", 0, "none", {}, "intro"),
     Block("divider", 0, "none", {}, "") >>
    \o (IF is_admin
        THEN << Block("section", 0, "none", {}, "admin_controls"),
                Block("actions", 0, "none",
                      {"open_add_event_modal", "open_add_type_modal",
                       "open_admin_sub_modal", "open_admin_register_modal",
                       "open_manage_admins_modal"}, ""),
                Block("divider", 0, "none", {}, "") >>
        ELSE <<>>)

\* min(math.floor((remaining_blocks - num_cats * 2) / num_cats), 10), then
\* max(items_per_cat, 0)
items_per_cat_unclamped(remaining_blocks, num_cats) ==
  LET q == (remaining_blocks - (num_cats * 2)) \div num_cats
  IN IF q < 10 THEN q ELSE 10

items_per_cat(remaining_blocks, num_cats) ==
  LET q == (remaining_blocks - (num_cats * 2)) \div num_cats
      m == IF q < 10 THEN q ELSE 10
  IN IF m > 0 THEN m ELSE 0

\* the branch num_cats == 0: one panel is appended and the blocks returned.
\* A view is the blocks, the number of calls of get_sorted_events made, and
\* items_per_cat when it was computed.
dashboard_empty_falls_through(blocks) ==
  [blocks |-> blocks \o <<Block("section", 0, "none", {}, "no_categories"),
                          Block("context", 0, "none", {}, "no_events")>>,
   event_queries |-> 1, items |-> {}]

dashboard_empty(blocks) ==
  [blocks |-> blocks \o <<Block("section", 0, "none", {}, "no_categories")>>,
   event_queries |-> 0, items |-> {}]

\* the loop over the categories
RECURSIVE dashboard_cats(_, _, _, _)
dashboard_cats(cats, items, is_admin, tie) ==
  IF cats = <<>> THEN <<>>
  ELSE LET cat == Head(cats)
           res == get_sorted_events(NoChannel, cat, tie)
           n == IF items < Len(res.events) THEN items ELSE Len(res.events)
           display_events == SubSeq(res.events, 1, n)
       IN <<Block("section", 0, "none", {}, "category")>>
            \o (IF display_events = <<>>
                THEN <<Block("context", 0, "none", {}, "no_events")>>
                ELSE EventBlocks(display_events, res.subs, is_admin, FALSE))
            \o (IF Len(res.events) > Len(display_events)
                THEN <<Block("actions", 0, "none", {"nav_view_category"}, "")>>
                ELSE <<>>)
            \o dashboard_cats(Tail(cats), items, is_admin, tie)

get_dashboard_view(user_id, tie) ==
  LET is_admin == is_user_admin(admins, user_id)
      event_types == SetToSeq(types)
      blocks == dashboard_head(is_admin)
      remaining_blocks == 100 - Len(blocks)
      num_cats == Len(event_types)
  IN IF num_cats = 0 THEN dashboard_empty(blocks)
     ELSE LET items == items_per_cat(remaining_blocks, num_cats)
          IN [blocks |-> blocks \o dashboard_cats(event_types, items, is_admin, tie),
              event_queries |-> num_cats, items |-> {items}]

ITEMS_PER_PAGE == 20

\* math.ceil(len(events) / ITEMS_PER_PAGE)
total_pages(n) == (n + ITEMS_PER_PAGE - 1) \div ITEMS_PER_PAGE

\* events[start:end] with start = page * ITEMS_PER_PAGE and
\* end = start + ITEMS_PER_PAGE
current_slice_from_next(evs, page) ==
  LET start == page * ITEMS_PER_PAGE + 1
      end == start + ITEMS_PER_PAGE
      last_ix == IF end < Len(evs) THEN end ELSE Len(evs)
  IN IF start >= Len(evs) THEN <<>> ELSE SubSeq(evs, start + 1, last_ix)

current_slice(evs, page) ==
  LET start == page * ITEMS_PER_PAGE
      end == start + ITEMS_PER_PAGE
      last_ix == IF end < Len(evs) THEN end ELSE Len(evs)
  IN IF start >= Len(evs) THEN <<>> ELSE SubSeq(evs, start + 1, last_ix)

\* the buttons of the pagination row
pagination_elements_inclusive(page, pages) ==
  (IF page > 0 THEN {"nav_prev_page"} ELSE {})
    \cup (IF page <= pages - 1 THEN {"nav_next_page"} ELSE {})

pagination_elements(page, pages) ==
  (IF page > 0 THEN {"nav_prev_page"} ELSE {})
    \cup (IF page < pages - 1 THEN {"nav_next_page"} ELSE {})

get_category_view(user_id, category, page, tie) ==
  LET is_admin == is_user_admin(admins, user_id)
      res == get_sorted_events(NoChannel, category, tie)
      elements == pagination_elements(page, total_pages(Len(res.events)))
  IN [blocks |->
        << Block("header", 0, "none", {}, "category"),
           Block("actions", 0, "none", {"nav_home"}, ""),
           Block("divider", 0, "none", {}, "") >>
          \o EventBlocks(current_slice(res.events, page), res.subs, is_admin, TRUE)
          \o (IF elements # {}
              THEN <<Block("actions", 0, "none", elements, "pagination")>>
              ELSE <<>>),
      event_queries |-> 1, items |-> {}]

\* what a handler that publishes a view records: the view, and the inputs
\* it was built from
ViewIO(which, view, category, page, tie) ==
  [kind |-> "view", which |-> which, blocks |-> view.blocks,
   event_queries |-> view.event_queries, items |-> view.items,
   category |-> category, page |-> page, tie |-> tie]

\* update_home_tab (app_home_opened) and go_home (nav_home)
update_home_tab(u, tie) ==
  /\ last' = [Req("app_home_opened", u, 0, "-", "-", FALSE, TRUE)
                EXCEPT !.io = ViewIO("home", get_dashboard_view(u, tie),
                                     NoCategory, 0, tie)]
  /\ UNCHANGED <<store, today, inflight, issued>>

\* go_category (nav_view_category): page 0 of the category of the button
go_category(u, category, tie) ==
  /\ category \in types
  /\ last' = [Req("nav_view_category", u, 0, "-", "-", FALSE, TRUE)
                EXCEPT !.io = ViewIO("category",
                                     get_category_view(u, category, 0, tie),
                                     category, 0, tie)]
  /\ UNCHANGED <<store, today, inflight, issued>>

\* prev_page (nav_prev_page): the page in the value of the button, which
\* was rendered before the click
prev_page(u, category, page, tie) ==
  /\ category \in types
  /\ last' = [Req("nav_prev_page", u, 0, "-", "-", FALSE, TRUE)
                EXCEPT !.io = ViewIO("category",
                                     get_category_view(u, category, page, tie),
                                     category, page, tie)]
  /\ UNCHANGED <<store, today, inflight, issued>>

\* next_page (nav_next_page)
next_page(u, category, page, tie) ==
  /\ category \in types
  /\ last' = [Req("nav_next_page", u, 0, "-", "-", FALSE, TRUE)
                EXCEPT !.io = ViewIO("category",
                                     get_category_view(u, category, page, tie),
                                     category, page, tie)]
  /\ UNCHANGED <<store, today, inflight, issued>>

\* ------------------------------------------------------------------------
\* Specification
\* ------------------------------------------------------------------------

Next ==
  \/ \E u \in Subscribers, e \in EventIds : toggle_sub(u, e)
  \/ \E u \in Subscribers, e \in EventIds : toggle_check(u, e)
  \/ \E u \in Subscribers, e \in EventIds : toggle_commit(u, e)
  \/ \E u \in Subscribers, e \in EventIds : toggle_unsub(u, e)
  \/ \E u \in FormActors \cup MenuSubscribers, e \in EventIds :
        handle_event_overflow(u, e)
  \/ \E u \in Subscribers, e \in EventIds, f \in {"none", "update", "post"} :
        handle_registration_confirm(u, e, f)
  \/ \E vals \in EventInputs : handle_event_sub(ROOT_ADMIN_ID, vals)
  \/ \E e \in EventIds, vals \in EventInputs :
        handle_edit_submission(ROOT_ADMIN_ID, e, vals)
  \/ \E t \in Subscribers : handle_admin_sub_submission(ROOT_ADMIN_ID, t)
  \/ \E t \in Subscribers : handle_admin_register_submission(ROOT_ADMIN_ID, t)

Spec == Init /\ [][Next]_vars

\* The reminder scenarios: the operator creates events, subscribers
\* subscribe, unsubscribe and confirm, days pass and the external scheduler
\* (or anyone else) calls the trigger.
NextCycle ==
  \/ Tick
  \/ \E vals \in EventInputs \cup CycleInputs :
        handle_event_sub(ROOT_ADMIN_ID, vals)
  \/ \E u \in Subscribers, e \in EventIds : toggle_sub(u, e)
  \/ \E u \in Subscribers, e \in EventIds : toggle_unsub(u, e)
  \/ \E h \in Headers, c \in Secrets, f \in FailingSets, b \in BOOLEAN :
        trigger_reminders(h, c, f, b)

SpecCycle == Init /\ [][NextCycle]_vars

\* The operator scenarios: identities are put on the allow-list, categories
\* are added, and commands that ask for operator rights are run.
NextAdmin ==
  \/ \E u \in Users, uid \in AdminInputs : handle_admin_sub(u, uid)
  \/ \E u \in Users, name \in NameInputs : handle_type_sub(u, name)
  \/ \E vals \in EventInputs : handle_event_sub(ROOT_ADMIN_ID, vals)
  \/ \E u \in Subscribers, e \in EventIds : toggle_sub(u, e)
  \/ \E u \in Users, t \in Subscribers : handle_list_subs(u, t)
  \/ \E u \in Subscribers, e \in EventIds :
        handle_registration_confirm(u, e, "none")
  \/ \E u \in Users, q \in EventIds \cup {NoQuery} : handle_check_pending(u, q)
  \/ \E u \in Users, q \in EventIds \cup {NoQuery}, f \in FailingSets :
        handle_nudge_pending(u, q, f)
  \/ handle_event_search
  \/ handle_admin_event_search
  \/ \E c \in Subscribers \cup {NoMetadata} :
        handle_admin_event_subscribed_search(c)

SpecAdmin == Init /\ [][NextAdmin]_vars

\* The rendering scenarios.  The tables hold what earlier requests left in
\* them: MaxCats categories at most and MaxEvents events at most; the views
\* are opened and paged by an operator and by a subscriber, who also
\* subscribes, confirms and unsubscribes.

\* largest number of rows of the EventType table
MaxCats == 50

\* largest number of rows of the Event table
MaxEvents == 48

\* largest page number in the value of a pagination button
MaxPage == 3

\* the first k category names: the seeded ones, then names added with the
\* add-category form
CatNames(k) ==
  {"SAT", "ACT", "AP", "Extracurricular"}
    \cup {"Club" \o ToString(i) : i \in 5..k}

\* the EventType table with k rows.  No handler deletes a category and the
\* start-up seeds an empty table, so fewer than four rows are there only
\* after rows were removed in the database itself.
TypeTables == {{}} \cup {CatNames(k) : k \in 4..MaxCats}

\* the i-th event created: most are SAT events, every ninth an AP event;
\* the event dates repeat and are not in the order of the ids; the deadline
\* of every 23rd event has passed on StartDay
NthEvent(i) ==
  Event(i, [event_type |-> IF i % 9 = 0 THEN "AP" ELSE "SAT",
            event_date |-> 10 + ((i * 3) % 5),
            registration_deadline |-> IF i % 23 = 0 THEN 2 ELSE 6 + (i % 3)])

\* numbers of rows of the Event table: few, and those around which the SAT
\* events with an open deadline fill one page and two pages exactly
EventCounts == {0, 1, 2, 22, 24, MaxEvents - 1, MaxEvents}

EventTables == {{NthEvent(i) : i \in 1..n} : n \in EventCounts}

\* categories whose pagination buttons are clicked
PagedCategories == {"SAT"}

\* identities that open the views
Viewers == {"root", "u1"}

InitView ==
  /\ types \in TypeTables
  /\ events \in EventTables
  /\ Cardinality(types) = 4 \/ Cardinality(events) <= 2
  /\ subs = EmptyBag
  /\ admins = {}
  /\ config = "C_CONSULT"
  /\ today = StartDay
  /\ inflight = EmptyBag
  /\ issued = Ids(events)
  /\ last = Idle

NextView ==
  \/ \E u \in MenuSubscribers, e \in EventIds : toggle_sub(u, e)
  \/ \E u \in MenuSubscribers, e \in EventIds : toggle_unsub(u, e)
  \/ \E u \in MenuSubscribers, e \in EventIds :
        handle_registration_confirm(u, e, "none")
  \/ \E u \in Viewers, tie \in TieOrders : update_home_tab(u, tie)
  \/ \E u \in Viewers, c \in TypeInputs, tie \in TieOrders :
        go_category(u, c, tie)
  \/ \E u \in Viewers, c \in PagedCategories, k \in 0..(MaxPage - 1),
        tie \in TieOrders : prev_page(u, c, k, tie)
  \/ \E u \in Viewers, c \in PagedCategories, k \in 1..MaxPage,
        tie \in TieOrders : next_page(u, c, k, tie)

SpecView == InitView /\ [][NextView]_vars

\* The navigation scenarios: the tables do not change; a viewer opens the
\* home tab, opens a category at page 0 and clicks the pagination buttons of
\* the view that was published last.  The value of the next button is
\* category|page+1, that of the previous button category|page-1; every
\* click runs the query again, and the order of tied rows is the one the
\* database returns for that request.
PaginationOf(io) ==
  UNION {io.blocks[i].controls :
           i \in {k \in 1..Len(io.blocks) : io.blocks[k].text = "pagination"}}

click_next ==
  /\ last.io.kind = "view" /\ last.io.which = "category"
  /\ "nav_next_page" \in PaginationOf(last.io)
  /\ \E tie \in TieOrders :
        next_page(last.actor, last.io.category, last.io.page + 1, tie)

click_prev ==
  /\ last.io.kind = "view" /\ last.io.which = "category"
  /\ "nav_prev_page" \in PaginationOf(last.io)
  /\ \E tie \in TieOrders :
        prev_page(last.actor, last.io.category, last.io.page - 1, tie)

NextNav ==
  \/ \E u \in Viewers, tie \in TieOrders : update_home_tab(u, tie)
  \/ \E u \in Viewers, c \in TypeInputs, tie \in TieOrders :
        go_category(u, c, tie)
  \/ click_next
  \/ click_prev

SpecNav == InitView /\ [][NextNav]_vars

\* ------------------------------------------------------------------------
\* Properties
\* ------------------------------------------------------------------------

\* number of Subscription rows of one (subscriber, event)
PairCount(S, ch, ev) == RowCount(S, SubsOf(S, ch, ev))

\* events the cycle of day sends deadline warnings for while their event
\* date lies outside day..day+3
DeadlineOnly(E, day) ==
  {e \in E : /\ e.registration_deadline \in day..(day + 3)
             /\ e.event_date \notin day..(day + 3)}

\* number of messages of a bag that are about event ev
RECURSIVE MsgCount(_, _, _)
MsgCount(B, msgs, ev) ==
  IF msgs = {} THEN 0
  ELSE LET m == CHOOSE x \in msgs : TRUE
       IN (IF m[2] = ev THEN CopiesIn(m, B) ELSE 0)
            + MsgCount(B, msgs \ {m}, ev)

\* a trigger request that passed the boundary check
Authorized == last.op = "trigger" /\ last.io.queried

\* C1: a reminder cycle with a valid bearer token in which every send
\* succeeds sends, for every event whose registration deadline is today+L
\* (L in 0..3) and whose event date is outside today..today+3, exactly one
\* notification per current subscription, and reminders_sent counts exactly
\* the notifications sent.
C1_CycleSendsOnePerSubscriber ==
  (Authorized /\ last.io.failing = {}) =>
     \A e \in DeadlineOnly(events, today) :
        /\ MsgCount(last.io.sent, BagToSet(last.io.sent), e.id)
             = RowCount(subs, SubsOfEvent(subs, e.id))
        /\ last.io.code = HttpOk
        /\ last.io.reminders_sent = BagCardinality(last.io.sent)

\* number of notifications the cycle owes: one per subscription row of a
\* triggered event, per trigger, to a conversation that can be reached
RECURSIVE Owed(_, _, _)
Owed(S, evts, failing) ==
  IF evts = <<>> THEN 0
  ELSE RowCount(S, {r \in SubsOfEvent(S, Head(evts).id) :
                       r.channel_id \notin failing})
         + Owed(S, Tail(evts), failing)

\* C2: in a reminder cycle a send that fails for one subscriber does not
\* abort the cycle: the endpoint answers success and reminders_sent is the
\* number of sends that succeeded, over all subscribers and all events.
C2_FailedSendDoesNotAbort ==
  (/\ Authorized
   /\ \E k \in 1..Len(Triggered(events, today, 1)) :
        \E r \in SubsOfEvent(subs, Triggered(events, today, 1)[k].id) :
           r.channel_id \in last.io.failing) =>
     /\ last.io.code = HttpOk
     /\ last.io.reminders_sent
          = Owed(subs, Triggered(events, today, 1), last.io.failing)
     /\ last.io.reminders_sent = BagCardinality(last.io.sent)

\* the requests the boundary has to reject: no header, no configured secret,
\* no token part, a scheme other than bearer, a token that is not the secret
Unauthorized(h, c) ==
  \/ ~h.truthy
  \/ c = NoSecret
  \/ Len(h.parts) < 2
  \/ h.parts[1] \notin {"Bearer", "BEARER", "bearer"}
  \/ h.parts[2] # c

\* C3: a trigger request that is unauthorized (missing header, unset
\* secret, non-bearer scheme, no token part, token different from the
\* secret) runs no query on events or subscriptions and attempts no send,
\* neither a reminder nor the briefing.
C3_UnauthorizedNeverScans ==
  (last.op = "trigger" /\ Unauthorized(last.io.header, last.io.secret)) =>
     /\ ~last.io.queried
     /\ last.io.calls = EmptyBag
     /\ last.io.sent = EmptyBag
     /\ last.io.briefing = "no"

\* C3 witness: an unauthorized request arrived on a day on which an
\* authorized one would have had subscribers to notify and a briefing to post
C3_Witness ==
  /\ last.op = "trigger"
  /\ Unauthorized(last.io.header, last.io.secret)
  /\ last.io.header.truthy /\ last.io.secret # NoSecret
  /\ Len(last.io.header.parts) = 2
  /\ config # NoConfig
  /\ \E e \in DeadlineOnly(events, today) : SubsOfEvent(subs, e.id) # {}

\* C4: every trigger request that is unauthorized, whatever its token, is
\* answered 401.
C4_UnauthorizedIs401 ==
  (last.op = "trigger" /\ Unauthorized(last.io.header, last.io.secret)) =>
     last.io.code = HttpUnauthorized

\* C5: a toggle_subscription "sub" by a subscriber who already has a row
\* for the event (as after a first "sub") changes nothing in the store,
\* returns normally, and leaves exactly one row for that subscriber and event.
C5_SecondSubscribeIsNoOp ==
  [][(last'.op = "toggle_sub" /\ SubsOf(subs, last'.actor, last'.ev) # {}) =>
        /\ store' = store
        /\ last'.ok
        /\ PairCount(subs', last'.actor, last'.ev) = 1]_vars

\* C5 witness: a "sub" was handled for a pair that already had its row
C5_Witness ==
  /\ last.op = "toggle_sub" /\ last.had
  /\ PairCount(subs, last.actor, last.ev) = 1

\* C6: in every reachable state there is at most one Subscription row per
\* (subscriber, event).
C6_OneRowPerPair ==
  \A r \in BagToSet(subs) : PairCount(subs, r.channel_id, r.event_id) = 1

\* C6 witness: an overlapping second subscribe reached its insert when the
\* row of the first was already stored
C6_Witness ==
  /\ last.op = "toggle_commit" /\ last.had
  /\ PairCount(subs, last.actor, last.ev) = 1

\* C7: the operator "delete" on event E leaves no Subscription row with
\* event_id = E and no Event E; the other events and the subscription rows
\* of the other events are as before.
C7_DeleteCascades ==
  [][last'.op = "overflow_delete" =>
        /\ \A x \in events' : x.id # last'.ev
        /\ \A r \in BagToSet(subs') : r.event_id # last'.ev
        /\ \A x \in events : x.id # last'.ev => x \in events'
        /\ events' \subseteq events
        /\ \A r \in BagToSet(subs) \cup BagToSet(subs') :
             r.event_id # last'.ev => CopiesIn(r, subs') = CopiesIn(r, subs)]_vars

\* C7 witness: an event that had subscribers was deleted while another
\* event keeps its subscribers
C7_Witness ==
  /\ last.op = "overflow_delete" /\ last.had /\ last.mode = "subs"
  /\ \E r \in BagToSet(subs) : r.event_id # last.ev /\ r.event_id \in Ids(events)

\* C8: in every reachable state every Subscription.event_id is the id of an
\* Event that exists.
C8_NoDanglingSubscription ==
  \A r \in BagToSet(subs) : r.event_id \in Ids(events)

\* the handlers behind the operator controls
OperatorOps ==
  {"overflow_edit", "overflow_delete", "submit_new_event", "submit_edit_event",
   "submit_new_type", "submit_new_admin", "submit_admin_sub",
   "submit_admin_register"}

\* C9: an interaction with an operator control submitted by an identity
\* that is not an operator changes neither the events, the categories, the
\* allow-list nor the subscription rows of other identities.
C9_NonOperatorChangesNothing ==
  [][(last'.op \in OperatorOps /\ ~is_user_admin(admins, last'.actor)) =>
        /\ events' = events
        /\ types' = types
        /\ admins' = admins
        /\ \A r \in BagToSet(subs) \cup BagToSet(subs') :
             r.channel_id # last'.actor => CopiesIn(r, subs') = CopiesIn(r, subs)]_vars

\* C10: the permission check of a command grants exactly the root identity
\* and the identities with an allow-list row, and the store is as before.
C10_AdminIffRootOrListed ==
  [][last'.op = "list_subs" =>
        /\ (last'.io.kind # "denied") <=>
             (last'.actor = ROOT_ADMIN_ID
                \/ \E a \in admins : a.user_slack_id = last'.actor)
        /\ store' = store]_vars

\* C10 witness: the check has granted an identity that is not the root
\* identity and has an allow-list row
C10_Witness ==
  /\ last.op = "list_subs"
  /\ last.actor = "u1" /\ last.io.kind # "denied"
  /\ AppAdmin("u1") \in admins

\* C11: in every reachable state the root identity is an operator: the
\* permission check holds for it whatever the allow-list holds, and a command
\* it runs is never denied.
C11_RootAlwaysOperator ==
  /\ is_user_admin(admins, ROOT_ADMIN_ID)
  /\ (last.op \in {"list_subs", "check_pending"} /\ last.actor = ROOT_ADMIN_ID) =>
        last.io.kind # "denied"

\* C11 witness: the root identity ran a command after the allow-list was
\* written by an identity other than itself
C11_Witness ==
  /\ last.op = "list_subs" /\ last.actor = ROOT_ADMIN_ID
  /\ last.io.kind # "denied"
  /\ admins # {} /\ AppAdmin(ROOT_ADMIN_ID) \notin admins

\* a request that published a view
Rendered(which) == last.io.kind = "view" /\ last.io.which = which

\* C12: whenever get_dashboard_view computes items_per_cat (one category or
\* more, operator or not) the value is an integer from 0 to 10, and it is 0
\* when the remaining budget less two blocks per category is negative.
C12_ItemsPerCatInRange ==
  (Rendered("home") /\ types # {}) =>
     /\ last.io.items # {}
     /\ \A n \in last.io.items :
          /\ n \in 0..10
          /\ (100 - Len(dashboard_head(is_user_admin(admins, last.actor)))
                - 2 * Cardinality(types) < 0) => n = 0

\* C12 witness: the dashboard was rendered with so many categories that the
\* budget less two blocks per category is negative
C12_Witness ==
  /\ Rendered("home")
  /\ 100 - Len(dashboard_head(is_user_admin(admins, last.actor)))
       - 2 * Cardinality(types) < 0
  /\ last.io.items = {0}

\* C13: the block list returned by get_dashboard_view has at most 100
\* blocks, for every viewer, number of categories, events and subscriptions.
C13_DashboardAtMost100Blocks ==
  Rendered("home") => Len(last.io.blocks) <= 100

\* the blocks of the view that say there is no category
NoCategoryPanels ==
  {i \in 1..Len(last.io.blocks) : last.io.blocks[i].text = "no_categories"}

\* C14: with no category get_dashboard_view returns, after the header (and
\* the admin controls of an operator), exactly one panel, the one saying
\* that no category is defined, and it has run no event query.
C14_NoCategoryOnePanel ==
  (Rendered("home") /\ types = {}) =>
     /\ last.io.event_queries = 0
     /\ Cardinality(NoCategoryPanels) = 1
     /\ Len(last.io.blocks)
          = Len(dashboard_head(is_user_admin(admins, last.actor))) + 1
     /\ last.io.blocks[Len(last.io.blocks)].text = "no_categories"

\* C14 witness: the dashboard was rendered while events existed and the
\* category table was empty
C14_Witness ==
  /\ Rendered("home") /\ types = {} /\ events # {}
  /\ Cardinality(NoCategoryPanels) = 1

\* the categories get_sorted_events is called with here: the two that have
\* events, and none
Categories == TypeInputs \cup {NoCategory}

\* C15 for one call: in the returned list no event without a subscription
\* of the viewer comes before one with, within the subscribed and within the
\* unsubscribed events the event dates ascend (both stated for neighbours,
\* which gives them for every two positions), and the map holds exactly the
\* returned events the viewer has a subscription for, each with that
\* subscription.
SortedFor(viewer, category, tie) ==
  LET res == get_sorted_events(viewer, category, tie)
      evs == res.events
      Subscribed(e) == SubsOf(subs, viewer, e.id) # {}
  IN /\ \A i \in 1..(Len(evs) - 1) :
          /\ ~(~Subscribed(evs[i]) /\ Subscribed(evs[i + 1]))
          /\ (Subscribed(evs[i]) <=> Subscribed(evs[i + 1])) =>
                evs[i].event_date <= evs[i + 1].event_date
     /\ DOMAIN res.subs = {evs[i].id : i \in {k \in 1..Len(evs) : Subscribed(evs[k])}}
     /\ \A id \in DOMAIN res.subs : res.subs[id] \in SubsOf(subs, viewer, id)

\* C15: the ordering and the subscription map of get_sorted_events, for
\* every viewer, every category and every order of tied rows.
C15_SortedEvents ==
  \A viewer \in Subscribers \cup {NoChannel}, category \in Categories,
     tie \in TieOrders : SortedFor(viewer, category, tie)

\* C15 witness: a viewer is subscribed to an event whose date is later than
\* that of an event of the same category the viewer is not subscribed to, and
\* the subscribed one comes first
C15_Witness ==
  \E viewer \in Subscribers, tie \in TieOrders :
     LET evs == get_sorted_events(viewer, "SAT", tie).events
     IN /\ Len(evs) >= 2
        /\ SubsOf(subs, viewer, evs[1].id) # {}
        /\ SubsOf(subs, viewer, evs[2].id) = {}
        /\ evs[1].event_date > evs[2].event_date

\* the event panels of the published view, in order
EventPanels == SelectSeq(last.io.blocks, LAMBDA b : b.text = "event")

\* the sorted list of the category of the published view
SortedList ==
  get_sorted_events(NoChannel, last.io.category, last.io.tie).events

\* C16: get_category_view for page k renders exactly the events at
\* positions 20k..20k+19 (counted from 0) of the sorted list of the
\* category, in order; for k at or beyond the last page it renders no event
\* panel and returns normally.
C16_PageIsSliceOfSorted ==
  Rendered("category") =>
     LET k == last.io.page
         N == Len(SortedList)
         rest == N - 20 * k
         n == IF rest <= 0 THEN 0 ELSE IF rest < 20 THEN rest ELSE 20
     IN /\ last.ok
        /\ Len(EventPanels) = n
        /\ \A i \in 1..n : EventPanels[i].ev = SortedList[20 * k + i].id

\* C16 witness: a page that is neither the first nor the last was rendered
\* with its 20 events
C16_Witness ==
  /\ Rendered("category") /\ last.io.page = 1
  /\ Len(SortedList) > 40 /\ Len(EventPanels) = 20

\* the pagination rows of the published view
PaginationRows ==
  SelectSeq(last.io.blocks, LAMBDA b : b.text = "pagination")

\* ceil(N / 20): the least t with 20 * t >= N
PagesOf(N) == CHOOSE t \in 0..N : 20 * t >= N /\ (t = 0 \/ 20 * (t - 1) < N)

\* C17: get_category_view for page k emits the previous button exactly when
\* k > 0 and the next button exactly when k < total_pages - 1, in one
\* navigation block, which is omitted when neither holds; beyond the last
\* page there is no next button.
C17_PaginationButtons ==
  Rendered("category") =>
     LET k == last.io.page
         prev == k > 0
         next == k < PagesOf(Len(SortedList)) - 1
     IN /\ Len(PaginationRows) = IF prev \/ next THEN 1 ELSE 0
        /\ \A i \in 1..Len(PaginationRows) :
             /\ ("nav_prev_page" \in PaginationRows[i].controls) <=> prev
             /\ ("nav_next_page" \in PaginationRows[i].controls) <=> next

\* C17 witness: a page beyond the last one of a category with three pages
\* was rendered with the previous button only
C17_Witness ==
  /\ Rendered("category") /\ last.io.page > 2
  /\ PagesOf(Len(SortedList)) = 3
  /\ Len(PaginationRows) = 1
  /\ PaginationRows[1].controls = {"nav_prev_page"}

\* the values a subscription toggle has in a control
ToggleControls == {"toggle_subscription", "sub", "unsub"}

\* C19: every event panel of a view published to a viewer who is not an
\* operator carries a subscribe/unsubscribe toggle for the event, and every
\* event panel published to an operator carries an overflow menu with edit,
\* delete and a subscription toggle.
C19_PanelsCarryControls ==
  last.io.kind = "view" =>
     \A i \in 1..Len(EventPanels) :
        IF is_user_admin(admins, last.actor)
        THEN /\ EventPanels[i].accessory = "overflow"
             /\ {"edit", "delete"} \subseteq EventPanels[i].controls
             /\ EventPanels[i].controls \cap ToggleControls # {}
        ELSE EventPanels[i].controls \cap ToggleControls # {}

\* C18: /check-pending by an operator for an event that is found lists
\* exactly the identities whose subscription to the event is Pending, once
\* each, reports as registered count the number of the Registered
\* subscriptions of the event, and changes no stored state.
C18_CheckPendingListsPending ==
  [][(/\ last'.op = "check_pending"
      /\ is_user_admin(admins, last'.actor)
      /\ last'.ev \in Ids(events)) =>
        /\ last'.io.kind \in {"pending", "all_registered"}
        /\ DOMAIN last'.io.listed
             = {r.channel_id : r \in {x \in BagToSet(subs) :
                    x.event_id = last'.ev /\ x.status = "Pending"}}
        /\ \A c \in DOMAIN last'.io.listed : last'.io.listed[c] = 1
        /\ last'.io.registered_count
             = BagCardinality(subs (-) [x \in {y \in BagToSet(subs) :
                   ~(y.event_id = last'.ev /\ y.status = "Registered")} |-> subs[x]])
        /\ store' = store]_vars

\* C18 witness: the command listed the two Pending subscribers of an event
\* with no Registered subscription, while another event has a Registered one
C18_Witness ==
  /\ last.op = "check_pending" /\ last.io.kind = "pending"
  /\ DOMAIN last.io.listed = {"u1", "u2"}
  /\ last.io.registered_count = 0
  /\ \E r \in BagToSet(subs) : r.status = "Registered"

\* events that trigger on day: the registration deadline or the event date
\* is day + L for an L in 0..3
TriggersOn(E, day) ==
  {e \in E : \/ e.registration_deadline \in day..(day + 3)
             \/ e.event_date \in day..(day + 3)}

\* C20: in one reminder cycle in which every send succeeds, each subscriber
\* of an event that triggers on that day receives exactly one notification
\* for that event, also when both its deadline and its event date are
\* within the window.
C20_OncePerSubscriberPerDay ==
  (Authorized /\ last.io.failing = {}) =>
     \A e \in TriggersOn(events, today) :
        \A r \in SubsOfEvent(subs, e.id) :
           CopiesIn(<<r.channel_id, e.id>>, last.io.sent) = 1

\* events of which neither the registration deadline nor the event date is
\* within day..day+3
FarEvents(E, day) == E \ TriggersOn(E, day)

\* C21: in a reminder cycle no notification is sent for an event whose
\* deadline and event date are both outside today..today+3, whatever
\* subscribers it has: notify is not called for it and no message is about it.
C21_NoNotificationOutsideWindow ==
  last.op = "trigger" =>
     \A e \in FarEvents(events, today) :
        /\ e.id \notin last.io.notified
        /\ MsgCount(last.io.calls, BagToSet(last.io.calls), e.id) = 0
        /\ MsgCount(last.io.sent, BagToSet(last.io.sent), e.id) = 0

\* C21 witness: an authorized cycle ran to its end while an event with a
\* subscriber had its deadline and its date beyond the window
C21_Witness ==
  /\ Authorized /\ last.io.code = HttpOk
  /\ \E e \in FarEvents(events, today) :
        /\ e.registration_deadline > today + 3
        /\ SubsOfEvent(subs, e.id) # {}

\* C22: submitting an edit for an event that no longer exists, deleting an
\* event that no longer exists, and confirming registration for a
\* (subscriber, event) without a subscription each leave the store unchanged
\* and return without raising.
C22_NotFoundIsNoOp ==
  [][(\/ last'.op = "submit_edit_event" /\ last'.ev \notin Ids(events)
      \/ last'.op = "overflow_delete" /\ last'.ev \notin Ids(events)
      \/ last'.op = "confirm" /\ SubsOf(subs, last'.actor, last'.ev) = {}) =>
        /\ store' = store
        /\ last'.ok]_vars

\* C23: when two "sub" handlers for the same subscriber and event both ran
\* their existence check before either inserted, each commit leaves exactly
\* one row for the pair (the insert that comes second is rejected and
\* changes nothing) and no row of another pair is changed.
C23_RacingSubscribesLeaveOneRow ==
  [][last'.op = "toggle_commit" =>
        /\ PairCount(subs', last'.actor, last'.ev) = 1
        /\ SubsOf(subs, last'.actor, last'.ev) # {} => subs' = subs /\ ~last'.ok
        /\ \A r \in BagToSet(subs) \cup BagToSet(subs') :
             ~(r.channel_id = last'.actor /\ r.event_id = last'.ev) =>
                CopiesIn(r, subs') = CopiesIn(r, subs)]_vars

\* C23 witness: the second of two overlapping subscribes was rejected while
\* the table also holds a row of another pair
C23_Witness ==
  /\ last.op = "toggle_commit" /\ last.had /\ ~last.ok
  /\ PairCount(subs, last.actor, last.ev) = 1
  /\ \E r \in BagToSet(subs) :
        ~(r.channel_id = last.actor /\ r.event_id = last.ev)

\* C24: a handler of an inbound interaction calls ack before it performs
\* any store query or mutation: in the recorded order of its steps every
\* store access comes after an ack.
C24_AckBeforeStore ==
  last.io.kind = "options" =>
     \A i \in 1..Len(last.io.steps) :
        last.io.steps[i] = "query" =>
           \E j \in 1..(i - 1) : last.io.steps[j] = "ack"

\* the blocks of the published view that are about event id and satisfy P
BlocksAbout(id, P(_)) ==
  {i \in 1..Len(last.io.blocks) :
     last.io.blocks[i].ev = id /\ P(last.io.blocks[i])}

\* the category of the event with primary key id
CategoryOf(id) == (CHOOSE e \in events : e.id = id).event_type

\* C25: the views use the subscriptions of the viewer: among the panels of
\* one category no event the viewer is not subscribed to comes before one
\* the viewer is subscribed to, and an event panel has the confirm button
\* exactly when the viewer's subscription is Pending and the registered note
\* exactly when it is Registered.
C25_ViewsUseViewerSubscriptions ==
  last.io.kind = "view" =>
     LET Status(id) ==
           {r.status : r \in SubsOf(subs, last.actor, id)}
     IN /\ \A i, j \in 1..Len(EventPanels) :
             (i < j /\ CategoryOf(EventPanels[i].ev) = CategoryOf(EventPanels[j].ev)) =>
                ~(Status(EventPanels[i].ev) = {} /\ Status(EventPanels[j].ev) # {})
        /\ \A i \in 1..Len(EventPanels) :
             LET id == EventPanels[i].ev
             IN /\ ("Pending" \in Status(id)) <=>
                     BlocksAbout(id, LAMBDA b : "confirm_registration" \in b.controls) # {}
                /\ ("Registered" \in Status(id)) <=>
                     BlocksAbout(id, LAMBDA b : b.text = "registered") # {}

\* C26: confirm_registration by a subscriber who holds a Pending
\* subscription to the event leaves that subscription Registered in the
\* committed store, whether or not the update of the message or the post to
\* the consultant channel succeeds.
C26_ConfirmCommitsRegistered ==
  [][(/\ last'.op = "confirm"
      /\ \E r \in SubsOf(subs, last'.actor, last'.ev) : r.status = "Pending") =>
        /\ SubsOf(subs', last'.actor, last'.ev) # {}
        /\ \A r \in SubsOf(subs', last'.actor, last'.ev) :
             r.status = "Registered"]_vars

\* the (subscriber, event) pairs that have a row
Pairs(S) == {<<r.channel_id, r.event_id>> : r \in BagToSet(S)}

WithStatus(S, ev, st) == {r \in SubsOfEvent(S, ev) : r.status = st}

\* C28: /nudge-pending by an operator for an event that is found attempts
\* one message to each subscriber whose status is Pending and none to a
\* subscriber whose status is Registered; the attempts go on after one that
\* fails, the count reported is the number of messages delivered, and no
\* stored state changes.  Run by an identity that is not an operator it
\* attempts no message.
C28_NudgeReachesPendingOnly ==
  [][last'.op = "nudge_pending" =>
        /\ store' = store
        /\ ~is_user_admin(admins, last'.actor) => last'.io.calls = EmptyBag
        /\ (is_user_admin(admins, last'.actor) /\ last'.ev \in Ids(events)) =>
              /\ DOMAIN last'.io.calls
                   = {r.channel_id : r \in WithStatus(subs, last'.ev, "Pending")}
              /\ \A c \in DOMAIN last'.io.calls : last'.io.calls[c] = 1
              /\ \A r \in WithStatus(subs, last'.ev, "Registered") :
                    r.channel_id \notin DOMAIN last'.io.calls
              /\ DOMAIN last'.io.sent = DOMAIN last'.io.calls \ last'.io.failing
              /\ \A c \in DOMAIN last'.io.sent : last'.io.sent[c] = 1
              /\ last'.io.count = BagCardinality(last'.io.sent)]_vars

\* C28 witness: of the two Pending subscribers of an event one could not be
\* reached: both were tried and the count is 1
C28_Witness ==
  /\ last.op = "nudge_pending" /\ last.io.kind = "nudged"
  /\ DOMAIN last.io.calls = {"u1", "u2"}
  /\ last.io.failing = {"u1"}
  /\ DOMAIN last.io.sent = {"u2"}
  /\ last.io.count = 1

\* C29: the status of a subscription only moves forward: a row of a pair
\* that had no row is created Pending, and no handler leaves Pending a pair
\* whose row was Registered (the pair is Pending again only after its row
\* was deleted by one handler and created by another).
C29_StatusIsMonotonic ==
  [][/\ \A r \in BagToSet(subs') :
          <<r.channel_id, r.event_id>> \notin Pairs(subs) => r.status = "Pending"
     /\ \A r \in BagToSet(subs) :
          r.status = "Registered" =>
             \A x \in SubsOf(subs', r.channel_id, r.event_id) :
                x.status = "Registered"]_vars

\* C29 witness: a handler that writes subscriptions ran for a pair whose
\* row is Registered, and the row is still Registered
C29_Witness ==
  /\ last.op \in {"toggle_sub", "confirm", "submit_admin_sub"}
  /\ \E r \in SubsOf(subs, last.target, last.ev) : r.status = "Registered"
  /\ \E r \in BagToSet(subs) : r.status = "Pending"

\* the event ids of the panels of get_category_view for the pages k..pages-1
RECURSIVE PanelsFrom(_, _, _, _, _)
PanelsFrom(viewer, category, k, pages, tie) ==
  IF k >= pages THEN <<>>
  ELSE LET blocks == get_category_view(viewer, category, k, tie).blocks
           panels == SelectSeq(blocks, LAMBDA b : b.text = "event")
       IN [i \in 1..Len(panels) |-> panels[i].ev]
            \o PanelsFrom(viewer, category, k + 1, pages, tie)

====
